---- MODULE Spec2Model ----
(***************************************************************************)
(* Two-pass Hack assembler (assembler.py): Code, Parser, SymbolTable and   *)
(* Assembler.  Text is modelled as sequences of one-character strings, so  *)
(* that stripping, splitting, number parsing and binary formatting are     *)
(* computed as the program computes them.                                  *)
(***************************************************************************)
EXTENDS Integers, Sequences, FiniteSets, TLC

(* ---------------------------- bounds ----------------------------------- *)

\* longest source (in raw lines) drawn from SourceLines
MaxLines == 3
\* largest literal v of the one-line sources "@v"
MaxLiteral == 32770

(* ------------------------- text primitives ----------------------------- *)

\* Python None, as a value no line of one-character strings can equal
None == <<"NONE">>

Digits == {"0","1","2","3","4","5","6","7","8","9"}

DigitVal ==
    "0" :> 0 @@ "1" :> 1 @@ "2" :> 2 @@ "3" :> 3 @@ "4" :> 4 @@
    "5" :> 5 @@ "6" :> 6 @@ "7" :> 7 @@ "8" :> 8 @@ "9" :> 9

Whitespace == {" ", "\t"}

\* s[from..], Python s[from-1:]
Tail_from(s, from) == SubSeq(s, from, Len(s))

RECURSIVE lstrip(_)
lstrip(s) ==
    IF Len(s) > 0 /\ s[1] \in Whitespace THEN lstrip(Tail(s)) ELSE s

RECURSIVE rstrip(_)
rstrip(s) ==
    IF Len(s) > 0 /\ s[Len(s)] \in Whitespace
    THEN rstrip(SubSeq(s, 1, Len(s) - 1)) ELSE s

\* str.strip()
strip(s) == rstrip(lstrip(s))

\* sep in s, for a separator of one or two characters
Contains(s, sep) ==
    \E i \in 1..(Len(s) - Len(sep) + 1) : SubSeq(s, i, i + Len(sep) - 1) = sep

\* index of the first occurrence of sep in s at or after from, 0 if none
FindFrom(s, sep, from) ==
    LET hits == {i \in from..(Len(s) - Len(sep) + 1) :
                    SubSeq(s, i, i + Len(sep) - 1) = sep}
    IN  IF hits = {} THEN 0 ELSE CHOOSE i \in hits : \A j \in hits : i <= j

\* s.split(sep)[0]
split0(s, sep) ==
    LET i == FindFrom(s, sep, 1)
    IN  IF i = 0 THEN s ELSE SubSeq(s, 1, i - 1)

\* s.split(sep)[1], for s that contains sep
split1(s, sep) ==
    LET i == FindFrom(s, sep, 1)
        rest == Tail_from(s, i + Len(sep))
    IN  split0(rest, sep)

\* str.isdigit() over the ASCII alphabet
isdigit(s) == Len(s) > 0 /\ \A i \in 1..Len(s) : s[i] \in Digits

\* int(s) for a string of decimal digits
RECURSIVE int(_)
int(s) ==
    IF Len(s) = 0 THEN 0
    ELSE int(SubSeq(s, 1, Len(s) - 1)) * 10 + DigitVal[s[Len(s)]]

\* format(value, 'b'): the binary digits of a non-negative value, no padding
RECURSIVE format_b(_)
format_b(value) ==
    IF value < 2 THEN <<IF value = 1 THEN "1" ELSE "0">>
    ELSE format_b(value \div 2) \o <<IF value % 2 = 1 THEN "1" ELSE "0">>

\* format_0b with the zeros put on the right (value left-aligned)
format_0b_right_pad(value, width) ==
    LET b == format_b(value)
    IN  IF Len(b) >= width THEN b
        ELSE b \o [i \in 1..(width - Len(b)) |-> "0"]

\* format(value, '0<width>b'): zero-padded on the left to at least width
format_0b(value, width) ==
    LET b == format_b(value)
    IN  IF Len(b) >= width THEN b
        ELSE [i \in 1..(width - Len(b)) |-> "0"] \o b

(* ------------------------------ Code ----------------------------------- *)

jumpMnemonics ==
    <<"N","U","L","L">> :> <<"0","0","0">> @@ <<"J","G","T">> :> <<"0","0","1">> @@
    <<"J","E","Q">> :> <<"0","1","0">> @@ <<"J","G","E">> :> <<"0","1","1">> @@
    <<"J","L","T">> :> <<"1","0","0">> @@ <<"J","N","E">> :> <<"1","0","1">> @@
    <<"J","L","E">> :> <<"1","1","0">> @@ <<"J","M","P">> :> <<"1","1","1">>

compMnemonics ==
    <<"0">> :> <<"0","1","0","1","0","1","0">> @@ <<"1">> :> <<"0","1","1","1","1","1","1">> @@
    <<"-","1">> :> <<"0","1","1","1","0","1","0">> @@ <<"D">> :> <<"0","0","0","1","1","0","0">> @@
    <<"A">> :> <<"0","1","1","0","0","0","0">> @@ <<"M">> :> <<"1","1","1","0","0","0","0">> @@
    <<"!","D">> :> <<"0","0","0","1","1","0","1">> @@ <<"!","A">> :> <<"0","1","1","0","0","0","1">> @@
    <<"!","M">> :> <<"1","1","1","0","0","0","1">> @@ <<"-","D">> :> <<"0","0","0","1","1","1","1">> @@
    <<"-","A">> :> <<"0","1","1","0","0","1","1">> @@ <<"-","M">> :> <<"1","1","1","0","0","1","1">> @@
    <<"D","+","1">> :> <<"0","0","1","1","1","1","1">> @@ <<"A","+","1">> :> <<"0","1","1","0","1","1","1">> @@
    <<"M","+","1">> :> <<"1","1","1","0","1","1","1">> @@ <<"D","-","1">> :> <<"0","0","0","1","1","1","0">> @@
    <<"A","-","1">> :> <<"0","1","1","0","0","1","0">> @@ <<"M","-","1">> :> <<"1","1","1","0","0","1","0">> @@
    <<"D","+","A">> :> <<"0","0","0","0","0","1","0">> @@ <<"D","+","M">> :> <<"1","0","0","0","0","1","0">> @@
    <<"D","-","A">> :> <<"0","0","1","0","0","1","1">> @@ <<"D","-","M">> :> <<"1","0","1","0","0","1","1">> @@
    <<"A","-","D">> :> <<"0","0","0","0","1","1","1">> @@ <<"M","-","D">> :> <<"1","0","0","0","1","1","1">> @@
    <<"D","&","A">> :> <<"0","0","0","0","0","0","0">> @@ <<"D","&","M">> :> <<"1","0","0","0","0","0","0">> @@
    <<"D","|","A">> :> <<"0","0","1","0","1","0","1">> @@ <<"D","|","M">> :> <<"1","0","1","0","1","0","1">>

destMnemonics ==
    <<"N","U","L","L">> :> <<"0","0","0">> @@ <<"M">> :> <<"0","0","1">> @@
    <<"D">> :> <<"0","1","0">> @@ <<"M","D">> :> <<"0","1","1">> @@
    <<"A">> :> <<"1","0","0">> @@ <<"A","M">> :> <<"1","0","1">> @@
    <<"A","D">> :> <<"1","1","0">> @@ <<"A","M","D">> :> <<"1","1","1">>

\* dict.get(key): the value, or None when the key is absent
dict_get(table, key) == IF key \in DOMAIN table THEN table[key] ELSE None

\* NullIfAbsent that replaces None only, not the empty string
NullIfAbsent_none_only(mnemonic) ==
    IF mnemonic = None THEN <<"N","U","L","L">> ELSE mnemonic

\* Code.dest / Code.jump treat None and "" as "NULL"
NullIfAbsent(mnemonic) ==
    IF mnemonic = None \/ mnemonic = <<>> THEN <<"N","U","L","L">> ELSE mnemonic

Code_dest(mnemonic) == dict_get(destMnemonics, NullIfAbsent(mnemonic))

Code_comp(mnemonic) == dict_get(compMnemonics, mnemonic)

\* Code.jump that falls back to "000" for an unknown mnemonic
Code_jump_default(mnemonic) ==
    IF NullIfAbsent(mnemonic) \in DOMAIN jumpMnemonics
    THEN jumpMnemonics[NullIfAbsent(mnemonic)] ELSE <<"0","0","0">>

Code_jump(mnemonic) == dict_get(jumpMnemonics, NullIfAbsent(mnemonic))

(* ----------------------------- Parser ---------------------------------- *)

\* clean_line that does not strip again after it has cut the comment
clean_line_no_restrip(raw) ==
    LET line == strip(raw)
    IN  IF Contains(line, <<"/","/">>) THEN split0(line, <<"/","/">>)
        ELSE line

\* one raw line as get_next_line cleans it: strip, cut at the first "//", strip
clean_line(raw) ==
    LET line == strip(raw)
    IN  IF Contains(line, <<"/","/">>) THEN strip(split0(line, <<"/","/">>))
        ELSE line

\* get_next_line that hands out a line even when nothing is left of it
get_next_line_keeps_blank(file, pos) ==
    IF pos >= Len(file) THEN [line |-> None, pos |-> Len(file)]
    ELSE [line |-> clean_line(file[pos + 1]), pos |-> pos + 1]

\* Parser.get_next_line from file position pos (raw lines already read):
\* the next non-empty cleaned line and the new position, None at end of file
RECURSIVE get_next_line(_, _)
get_next_line(file, pos) ==
    IF pos >= Len(file) THEN [line |-> None, pos |-> Len(file)]
    ELSE LET line == clean_line(file[pos + 1])
         IN  IF line # <<>> THEN [line |-> line, pos |-> pos + 1]
             ELSE get_next_line(file, pos + 1)

\* Parser.__init__
Parser_init(file) ==
    LET n == get_next_line(file, 0)
    IN  [pos |-> n.pos, current_command |-> None, next_line |-> n.line]

has_more_commands(p) == p.next_line # None

\* Parser.advance
advance(file, p) ==
    LET n == get_next_line(file, p.pos)
    IN  [pos |-> n.pos, current_command |-> p.next_line, next_line |-> n.line]

A_COMMAND == 1
C_COMMAND == 2
L_COMMAND == 3

\* command_type that takes every line opening with "(" for a label
command_type_open_paren(cmd) ==
    IF Len(cmd) > 0 /\ cmd[1] = "@" THEN A_COMMAND
    ELSE IF Len(cmd) > 0 /\ cmd[1] = "(" THEN L_COMMAND
    ELSE C_COMMAND

\* Parser.command_type
command_type(cmd) ==
    IF Len(cmd) > 0 /\ cmd[1] = "@" THEN A_COMMAND
    ELSE IF Len(cmd) > 0 /\ cmd[1] = "(" /\ cmd[Len(cmd)] = ")" THEN L_COMMAND
    ELSE C_COMMAND

\* Parser.symbol
symbol(cmd) ==
    IF command_type(cmd) = A_COMMAND THEN Tail_from(cmd, 2)
    ELSE IF command_type(cmd) = L_COMMAND THEN SubSeq(cmd, 2, Len(cmd) - 1)
    ELSE None

\* Parser.dest
Parser_dest(cmd) ==
    IF Contains(cmd, <<"=">>) THEN strip(split0(cmd, <<"=">>)) ELSE None

\* Parser.comp
Parser_comp(cmd) ==
    LET c1 == IF Contains(cmd, <<"=">>) THEN split1(cmd, <<"=">>) ELSE cmd
        c2 == IF Contains(c1, <<";">>) THEN split0(c1, <<";">>) ELSE c1
    IN  strip(c2)

\* Parser.jump
Parser_jump(cmd) ==
    IF Contains(cmd, <<";">>) THEN strip(split1(cmd, <<";">>)) ELSE None

(* --------------------------- SymbolTable ------------------------------- *)

PredefinedSymbols ==
    <<"S","P">> :> 0 @@ <<"L","C","L">> :> 1 @@ <<"A","R","G">> :> 2 @@ <<"T","H","I","S">> :> 3 @@
    <<"T","H","A","T">> :> 4 @@ <<"R","0">> :> 0 @@ <<"R","1">> :> 1 @@ <<"R","2">> :> 2 @@
    <<"R","3">> :> 3 @@ <<"R","4">> :> 4 @@ <<"R","5">> :> 5 @@ <<"R","6">> :> 6 @@
    <<"R","7">> :> 7 @@ <<"R","8">> :> 8 @@ <<"R","9">> :> 9 @@ <<"R","1","0">> :> 10 @@
    <<"R","1","1">> :> 11 @@ <<"R","1","2">> :> 12 @@ <<"R","1","3">> :> 13 @@ <<"R","1","4">> :> 14 @@
    <<"R","1","5">> :> 15 @@ <<"S","C","R","E","E","N">> :> 16384 @@ <<"K","B","D">> :> 24576

\* SymbolTable.__init__ with the variable cursor at 0, on top of R0
SymbolTable_init_data_at_0 ==
    [symbolAddressMap |-> PredefinedSymbols, programAddress |-> 0, dataAddress |-> 0]

\* SymbolTable.__init__
SymbolTable_init ==
    [symbolAddressMap |-> PredefinedSymbols, programAddress |-> 0, dataAddress |-> 16]

contains(st, sym) == sym \in DOMAIN st.symbolAddressMap

\* SymbolTable.add_entry: insert or overwrite
add_entry(st, sym, address) ==
    [st EXCEPT !.symbolAddressMap = (sym :> address) @@ st.symbolAddressMap]

get_address(st, sym) == st.symbolAddressMap[sym]

get_program_address(st) == st.programAddress

increment_program_address(st) == [st EXCEPT !.programAddress = @ + 1]

get_data_address(st) == st.dataAddress

increment_data_address(st) == [st EXCEPT !.dataAddress = @ + 1]

(* ----------------------------- Assembler ------------------------------- *)

\* Assembler.format_a_instruction
format_a_instruction(address) == <<"0">> \o format_0b(address, 15)

\* Assembler.format_c_instruction: the instruction, or the exception raised
\* (ValueError for an unknown comp; TypeError when "111" + comp_bits is
\* concatenated with the None that Code.dest / Code.jump return)
format_c_instruction(comp, dest, jump) ==
    LET comp_bits == Code_comp(comp)
        dest_bits == Code_dest(dest)
        jump_bits == Code_jump(jump)
    IN  IF comp_bits = None THEN [error |-> "ValueError", instruction |-> None]
        ELSE IF dest_bits = None \/ jump_bits = None
        THEN [error |-> "TypeError", instruction |-> None]
        ELSE [error |-> "none",
              instruction |-> <<"1","1","1">> \o comp_bits \o dest_bits \o jump_bits]

\* record_label that leaves a name alone when it is already bound
record_label_keeps_existing(st, cmd) ==
    IF contains(st, symbol(cmd)) THEN st
    ELSE add_entry(st, symbol(cmd), get_program_address(st))

\* record_label that binds the label one past the instruction cursor
record_label_next_address(st, cmd) ==
    add_entry(st, symbol(cmd), get_program_address(st) + 1)

\* the label branch of the loop body of record_label_address
record_label(st, cmd) == add_entry(st, symbol(cmd), get_program_address(st))

\* record_command that advances the instruction cursor on label lines too
record_command_counts_labels(st, cmd) ==
    IF command_type(cmd) = L_COMMAND
    THEN increment_program_address(record_label(st, cmd))
    ELSE increment_program_address(st)

\* the loop body of record_label_address for one command
record_command(st, cmd) ==
    IF command_type(cmd) = L_COMMAND THEN record_label(st, cmd)
    ELSE increment_program_address(st)

\* resolve_address that binds a new variable without advancing the cursor
resolve_address_no_increment(st, sym) ==
    IF isdigit(sym) THEN [address |-> int(sym), st |-> st]
    ELSE IF ~contains(st, sym)
    THEN [address |-> get_data_address(st),
          st |-> add_entry(st, sym, get_data_address(st))]
    ELSE [address |-> get_address(st, sym), st |-> st]

\* resolve_address without the contains check: every symbolic target is
\* bound afresh
resolve_address_rebinds(st, sym) ==
    IF isdigit(sym) THEN [address |-> int(sym), st |-> st]
    ELSE [address |-> get_data_address(st),
          st |-> increment_data_address(add_entry(st, sym, get_data_address(st)))]

\* resolve_address that enters a numeric literal in the symbol table too
resolve_address_binds_literals(st, sym) ==
    IF isdigit(sym)
    THEN [address |-> int(sym), st |-> add_entry(st, sym, int(sym))]
    ELSE IF ~contains(st, sym)
    THEN [address |-> get_data_address(st),
          st |-> increment_data_address(add_entry(st, sym, get_data_address(st)))]
    ELSE [address |-> get_address(st, sym), st |-> st]

\* the A_COMMAND branch of parse: the address and the symbol table after it
resolve_address(st, sym) ==
    IF isdigit(sym) THEN [address |-> int(sym), st |-> st]
    ELSE IF ~contains(st, sym)
    THEN [address |-> get_data_address(st),
          st |-> increment_data_address(add_entry(st, sym, get_data_address(st)))]
    ELSE [address |-> get_address(st, sym), st |-> st]

\* record_label_address as a whole: the symbol table after the commands
\* that parser p still has to hand out
RECURSIVE record_label_address(_, _, _)
record_label_address(file, p, st) ==
    IF ~has_more_commands(p) THEN st
    ELSE LET q == advance(file, p)
         IN  record_label_address(file, q, record_command(st, q.current_command))

\* the loop of parse as a whole: the symbol table, the output lines and the
\* exception, if any, after the commands that parser p still has to hand out
RECURSIVE parse(_, _, _, _)
parse(file, p, st, out) ==
    IF ~has_more_commands(p)
    THEN [symbol_table |-> st, output_lines |-> out, error |-> "none"]
    ELSE LET q == advance(file, p)
             cmd == q.current_command
         IN  IF command_type(cmd) = A_COMMAND
             THEN LET r == resolve_address(st, symbol(cmd))
                  IN  parse(file, q, r.st, Append(out, format_a_instruction(r.address)))
             ELSE IF command_type(cmd) = C_COMMAND
             THEN LET r == format_c_instruction(Parser_comp(cmd), Parser_dest(cmd),
                                                Parser_jump(cmd))
                  IN  IF r.error = "none"
                      THEN parse(file, q, st, Append(out, r.instruction))
                      ELSE [symbol_table |-> st, output_lines |-> out,
                            error |-> r.error]
             ELSE parse(file, q, st, out)

\* translate on a fresh Assembler
translate(file) ==
    parse(file, Parser_init(file),
          record_label_address(file, Parser_init(file), SymbolTable_init), <<>>)

(* ------------------------------ inputs --------------------------------- *)

\* str(v)
RECURSIVE str(_)
str(v) ==
    LET d == CHOOSE c \in Digits : DigitVal[c] = v % 10
    IN  IF v < 10 THEN <<d>> ELSE str(v \div 10) \o <<d>>

\* raw source lines the multi-line sources are built from
SourceLines ==
    { <<"@","i">>,
      <<"@","j"," ","/","/","v">>,
      <<"(","i",")">>,
      <<"(","R","1",")">>,
      <<"@","R","1">>,
      <<"D","=","M",";","J","G","T">>,
      <<"Q">>,
      <<"Q","=","D">>,
      <<"D",";","Q">>,
      <<>>,
      <<" ","/","/","c">> }

\* the expected bit patterns of test_assembler.py ("" is the empty mnemonic)
ReferenceComp ==
    <<"0">> :> <<"0","1","0","1","0","1","0">> @@ <<"1">> :> <<"0","1","1","1","1","1","1">> @@
    <<"-","1">> :> <<"0","1","1","1","0","1","0">> @@ <<"D">> :> <<"0","0","0","1","1","0","0">> @@
    <<"A">> :> <<"0","1","1","0","0","0","0">> @@ <<"M">> :> <<"1","1","1","0","0","0","0">> @@
    <<"!","D">> :> <<"0","0","0","1","1","0","1">> @@ <<"!","A">> :> <<"0","1","1","0","0","0","1">> @@
    <<"!","M">> :> <<"1","1","1","0","0","0","1">> @@ <<"-","D">> :> <<"0","0","0","1","1","1","1">> @@
    <<"-","A">> :> <<"0","1","1","0","0","1","1">> @@ <<"-","M">> :> <<"1","1","1","0","0","1","1">> @@
    <<"D","+","1">> :> <<"0","0","1","1","1","1","1">> @@ <<"A","+","1">> :> <<"0","1","1","0","1","1","1">> @@
    <<"M","+","1">> :> <<"1","1","1","0","1","1","1">> @@ <<"D","-","1">> :> <<"0","0","0","1","1","1","0">> @@
    <<"A","-","1">> :> <<"0","1","1","0","0","1","0">> @@ <<"M","-","1">> :> <<"1","1","1","0","0","1","0">> @@
    <<"D","+","A">> :> <<"0","0","0","0","0","1","0">> @@ <<"D","+","M">> :> <<"1","0","0","0","0","1","0">> @@
    <<"D","-","A">> :> <<"0","0","1","0","0","1","1">> @@ <<"D","-","M">> :> <<"1","0","1","0","0","1","1">> @@
    <<"A","-","D">> :> <<"0","0","0","0","1","1","1">> @@ <<"M","-","D">> :> <<"1","0","0","0","1","1","1">> @@
    <<"D","&","A">> :> <<"0","0","0","0","0","0","0">> @@ <<"D","&","M">> :> <<"1","0","0","0","0","0","0">> @@
    <<"D","|","A">> :> <<"0","0","1","0","1","0","1">> @@ <<"D","|","M">> :> <<"1","0","1","0","1","0","1">>

ReferenceDest ==
    <<>> :> <<"0","0","0">> @@ <<"M">> :> <<"0","0","1">> @@
    <<"D">> :> <<"0","1","0">> @@ <<"M","D">> :> <<"0","1","1">> @@
    <<"A">> :> <<"1","0","0">> @@ <<"A","M">> :> <<"1","0","1">> @@
    <<"A","D">> :> <<"1","1","0">> @@ <<"A","M","D">> :> <<"1","1","1">>

ReferenceJump ==
    <<>> :> <<"0","0","0">> @@ <<"J","G","T">> :> <<"0","0","1">> @@
    <<"J","E","Q">> :> <<"0","1","0">> @@ <<"J","G","E">> :> <<"0","1","1">> @@
    <<"J","L","T">> :> <<"1","0","0">> @@ <<"J","N","E">> :> <<"1","0","1">> @@
    <<"J","L","E">> :> <<"1","1","0">> @@ <<"J","M","P">> :> <<"1","1","1">>

\* a Compute line written from its fields; None is a field left out
\* together with its separator
ComputeLine(dest, comp, jump) ==
    (IF dest = None THEN <<>> ELSE dest \o <<"=">>)
        \o comp
        \o (IF jump = None THEN <<>> ELSE <<";">> \o jump)

\* every Compute line over the tested mnemonics, each destination and jump
\* also left out and spelled NULL
ComputeLines ==
    {ComputeLine(d, c, j) :
        d \in DOMAIN ReferenceDest \cup {None, <<"N","U","L","L">>},
        c \in DOMAIN ReferenceComp,
        j \in DOMAIN ReferenceJump \cup {None, <<"N","U","L","L">>}}

\* lines outside the grammar: repeated or misordered separators, parentheses
\* that do not close
OddLines ==
    { <<"D","=","M","=","A">>,
      <<"0",";","J","M","P",";","X">>,
      <<"D",";","J","=","M">>,
      <<"(","i">>,
      <<"(",")">>,
      <<"(">>,
      <<"\t","M","=","D"," ","/","/"," ","/","/","x">> }

Sources ==
    UNION {[1..n -> SourceLines] : n \in 0..MaxLines}
    \cup {<< <<"@">> \o str(v) >> : v \in 0..MaxLiteral}
    \cup {<<l>> : l \in ComputeLines \cup OddLines}

(* ------------------------------- state --------------------------------- *)

VARIABLES
    source_file,    \* the raw lines of the source file
    target_file,    \* [written, lines]: the output file
    symbol_table,   \* Assembler.symbol_table
    parser,         \* the Parser of the running pass
    output_lines,   \* parse's output_lines
    pc,             \* "Start", "Pass1", "Pass2", "Done", "Failed"
    error           \* the exception that ended the run, "none" otherwise

vars == <<source_file, target_file, symbol_table, parser, output_lines, pc, error>>

NoParser == [pos |-> 0, current_command |-> None, next_line |-> None]

\* Assembler.__init__ on a readable source
Init ==
    /\ source_file \in Sources
    /\ target_file = [written |-> FALSE, lines |-> <<>>]
    /\ symbol_table = SymbolTable_init
    /\ parser = NoParser
    /\ output_lines = <<>>
    /\ pc = "Start"
    /\ error = "none"

\* translate -> record_label_address: open the parser of pass 1
BeginPass1 ==
    /\ pc = "Start"
    /\ parser' = Parser_init(source_file)
    /\ pc' = "Pass1"
    /\ UNCHANGED <<source_file, target_file, symbol_table, output_lines, error>>

\* one iteration of the loop of record_label_address
Pass1Step ==
    /\ pc = "Pass1"
    /\ has_more_commands(parser)
    /\ parser' = advance(source_file, parser)
    /\ symbol_table' = record_command(symbol_table, parser'.current_command)
    /\ UNCHANGED <<source_file, target_file, output_lines, pc, error>>

\* BeginPass2 taken while pass 1 still has commands to read
BeginPass2_early ==
    /\ pc = "Pass1"
    /\ parser' = Parser_init(source_file)
    /\ output_lines' = <<>>
    /\ pc' = "Pass2"
    /\ UNCHANGED <<source_file, target_file, symbol_table, error>>

\* BeginPass2 that opens the output file for writing before the loop
BeginPass2_opens_target ==
    /\ pc = "Pass1"
    /\ ~has_more_commands(parser)
    /\ parser' = Parser_init(source_file)
    /\ output_lines' = <<>>
    /\ target_file' = [written |-> TRUE, lines |-> <<>>]
    /\ pc' = "Pass2"
    /\ UNCHANGED <<source_file, symbol_table, error>>

\* BeginPass2 that ends the run after pass 1, with no second pass
BeginPass2_skips_parse ==
    /\ pc = "Pass1"
    /\ ~has_more_commands(parser)
    /\ target_file' = [written |-> TRUE, lines |-> output_lines]
    /\ pc' = "Done"
    /\ UNCHANGED <<source_file, symbol_table, parser, output_lines, error>>

\* record_label_address returns; parse opens its own parser and output_lines
BeginPass2 ==
    /\ pc = "Pass1"
    /\ ~has_more_commands(parser)
    /\ parser' = Parser_init(source_file)
    /\ output_lines' = <<>>
    /\ pc' = "Pass2"
    /\ UNCHANGED <<source_file, target_file, symbol_table, error>>

\* one iteration of the loop of parse
Pass2Step ==
    /\ pc = "Pass2"
    /\ has_more_commands(parser)
    /\ parser' = advance(source_file, parser)
    /\ LET cmd == parser'.current_command
           ct == command_type(cmd)
       IN  IF ct = A_COMMAND
           THEN LET r == resolve_address(symbol_table, symbol(cmd))
                IN  /\ symbol_table' = r.st
                    /\ output_lines' = Append(output_lines, format_a_instruction(r.address))
                    /\ UNCHANGED <<pc, error>>
           ELSE IF ct = C_COMMAND
           THEN LET r == format_c_instruction(Parser_comp(cmd), Parser_dest(cmd),
                                              Parser_jump(cmd))
                IN  IF r.error = "none"
                    THEN /\ output_lines' = Append(output_lines, r.instruction)
                         /\ UNCHANGED <<symbol_table, pc, error>>
                    ELSE /\ pc' = "Failed"
                         /\ error' = r.error
                         /\ UNCHANGED <<symbol_table, output_lines>>
           ELSE UNCHANGED <<symbol_table, output_lines, pc, error>>
    /\ UNCHANGED <<source_file, target_file>>

\* the end of parse: the output file is opened and every line written
WriteOutput ==
    /\ pc = "Pass2"
    /\ ~has_more_commands(parser)
    /\ target_file' = [written |-> TRUE, lines |-> output_lines]
    /\ pc' = "Done"
    /\ UNCHANGED <<source_file, symbol_table, parser, output_lines, error>>

Next == BeginPass1 \/ Pass1Step \/ BeginPass2 \/ Pass2Step \/ WriteOutput

Spec == Init /\ [][Next]_vars

\* an instruction, a label, a line that fails and a line that is skipped
FairLines ==
    { <<"@","i">>,
      <<"(","i",")">>,
      <<"D",";","Q">>,
      <<" ","/","/","c">> }

\* Init over the sources built from FairLines
InitFair ==
    /\ Init
    /\ source_file \in UNION {[1..n -> FairLines] : n \in 0..MaxLines}

\* translate runs to its end: a call that can take a step takes it
FairSpec == InitFair /\ [][Next]_vars /\ WF_vars(Next)

(* ------------------- the source as a list of commands ------------------ *)

\* the commands of a file: its non-empty cleaned lines, in order
CommandsOf(file) ==
    SelectSeq([i \in 1..Len(file) |-> clean_line(file[i])], LAMBDA l : l # <<>>)

Commands == CommandsOf(source_file)

\* how many commands parser p has handed out through advance
Consumed(p) ==
    Len(CommandsOf(SubSeq(source_file, 1, p.pos)))
        - (IF has_more_commands(p) THEN 1 ELSE 0)

AfterPass1 == pc \in {"Pass2", "Done", "Failed"}

\* how many commands pass 2 has taken so far
Consumed2 == IF AfterPass1 THEN Consumed(parser) ELSE 0

IsLabel(i) == command_type(Commands[i]) = L_COMMAND

IsAddress(i) == command_type(Commands[i]) = A_COMMAND

IsCompute(i) == command_type(Commands[i]) = C_COMMAND

\* the number of Address and Compute commands before command i
NonLabelsBefore(i) == Cardinality({j \in 1..(i - 1) : ~IsLabel(j)})

NonLabelCount == NonLabelsBefore(Len(Commands) + 1)

\* the output line of the non-label command i
OutputOf(i) == output_lines[NonLabelsBefore(i) + 1]

LabelNames == {symbol(Commands[i]) : i \in {j \in 1..Len(Commands) : IsLabel(j)}}

\* the last Label command that declares name
LastDeclaration(name) ==
    CHOOSE i \in 1..Len(Commands) :
        /\ IsLabel(i) /\ symbol(Commands[i]) = name
        /\ \A j \in (i + 1)..Len(Commands) :
              ~(IsLabel(j) /\ symbol(Commands[j]) = name)

\* the instruction address of the label name
LabelAddress(name) == NonLabelsBefore(LastDeclaration(name))

\* command i is an Address command whose target is a symbolic name
IsSymbolicAddress(i) == IsAddress(i) /\ ~isdigit(symbol(Commands[i]))

\* command i uses a variable: a symbolic target, not predefined, not a label
IsVariableUse(i) ==
    /\ IsSymbolicAddress(i)
    /\ symbol(Commands[i]) \notin DOMAIN PredefinedSymbols
    /\ symbol(Commands[i]) \notin LabelNames

\* the distinct variables used by the commands 1..i
VariablesUpTo(i) ==
    {symbol(Commands[j]) : j \in {k \in 1..i : IsVariableUse(k)}}

\* the first command that uses the variable of command i
FirstUse(i) ==
    CHOOSE j \in 1..i :
        /\ IsVariableUse(j) /\ symbol(Commands[j]) = symbol(Commands[i])
        /\ \A k \in 1..(j - 1) : symbol(Commands[k]) # symbol(Commands[i])
                                  \/ ~IsVariableUse(k)

\* k such that the variable of command i is the k-th distinct variable
VariableRank(i) == Cardinality(VariablesUpTo(FirstUse(i)))

\* a string of binary digits read as an unsigned number
RECURSIVE BinValue(_)
BinValue(bits) ==
    IF Len(bits) = 0 THEN 0
    ELSE 2 * BinValue(SubSeq(bits, 1, Len(bits) - 1))
         + (IF bits[Len(bits)] = "1" THEN 1 ELSE 0)

IsBits(line) == \A c \in 1..Len(line) : line[c] \in {"0", "1"}

(* ------------------------------ claims --------------------------------- *)

\* C1: in pass 2 the k-th distinct variable (symbolic Address target that is
\* neither predefined nor a label), in order of first use, is bound to
\* 16 + (k - 1); every use of it, the first and the later ones, is encoded
\* with that address, wherever the label lines are.
C1_FirstUseOrder ==
    \A i \in 1..Consumed2 :
        IsVariableUse(i) =>
            /\ contains(symbol_table, symbol(Commands[i]))
            /\ symbol_table.symbolAddressMap[symbol(Commands[i])]
                   = 16 + (VariableRank(i) - 1)
            /\ Len(OutputOf(i)) = 16
            /\ BinValue(OutputOf(i)) = 16 + (VariableRank(i) - 1)

\* two variables bound, the second encoded as 17 and the first used again
\* after it and encoded as 16
C1_Witness ==
    /\ pc = "Done"
    /\ \E i \in 1..Len(Commands) :
          /\ IsVariableUse(i) /\ VariableRank(i) = 2
          /\ BinValue(OutputOf(i)) = 17
          /\ \E j \in (i + 1)..Len(Commands) :
                /\ IsVariableUse(j) /\ VariableRank(j) = 1
                /\ BinValue(OutputOf(j)) = 16

\* C2 as stated: after pass 1 every Label command's name is bound to the
\* number of non-label commands before that Label command.
C2_EveryLabelCommand ==
    AfterPass1 =>
        \A i \in 1..Len(Commands) :
            IsLabel(i) =>
                /\ contains(symbol_table, symbol(Commands[i]))
                /\ symbol_table.symbolAddressMap[symbol(Commands[i])]
                       = NonLabelsBefore(i)

\* C2 amended: after pass 1 every label name is bound to the number of
\* non-label commands before the last Label command that declares it; label
\* lines do not advance the instruction cursor (it ends at the number of
\* non-label commands), so consecutive label lines that are both the last
\* declaration of their name are bound to the same address.
C2_LastDeclaration ==
    AfterPass1 =>
        /\ symbol_table.programAddress = NonLabelCount
        /\ \A name \in LabelNames :
              /\ contains(symbol_table, name)
              /\ symbol_table.symbolAddressMap[name] = LabelAddress(name)
        /\ \A i \in 1..(Len(Commands) - 1) :
              /\ IsLabel(i) /\ IsLabel(i + 1)
              /\ LastDeclaration(symbol(Commands[i])) = i
              /\ LastDeclaration(symbol(Commands[i + 1])) = i + 1
              => symbol_table.symbolAddressMap[symbol(Commands[i])]
                   = symbol_table.symbolAddressMap[symbol(Commands[i + 1])]

\* pass 1 is over; two label lines in a row, after an instruction, hold the
\* same address
C2_Witness ==
    /\ pc = "Pass2"
    /\ \E i \in 2..(Len(Commands) - 1) :
          /\ IsLabel(i) /\ IsLabel(i + 1) /\ ~IsLabel(i - 1)
          /\ symbol(Commands[i]) # symbol(Commands[i + 1])
          /\ symbol_table.symbolAddressMap[symbol(Commands[i])] >= 1
          /\ symbol_table.symbolAddressMap[symbol(Commands[i + 1])]
                = symbol_table.symbolAddressMap[symbol(Commands[i])]

\* C3: pass 2 runs with every label of the source bound, so a symbolic
\* Address target that is declared as a label anywhere in the source is
\* encoded with the label's instruction address and takes no variable
\* address: the variable cursor counts the variables only.
C3_LabelsResolvedBeforePass2 ==
    AfterPass1 =>
        /\ \A name \in LabelNames :
              /\ contains(symbol_table, name)
              /\ symbol_table.symbolAddressMap[name] = LabelAddress(name)
        /\ \A i \in 1..Consumed2 :
              IsSymbolicAddress(i) /\ symbol(Commands[i]) \in LabelNames
                  => /\ Len(OutputOf(i)) = 16
                     /\ BinValue(OutputOf(i)) = LabelAddress(symbol(Commands[i]))
        /\ symbol_table.dataAddress = 16 + Cardinality(VariablesUpTo(Consumed2))

\* a forward reference: the Address command comes before the label line
C3_Witness ==
    /\ pc = "Done"
    /\ \E i \in 1..Len(Commands) :
          /\ IsSymbolicAddress(i)
          /\ symbol(Commands[i]) \notin DOMAIN PredefinedSymbols
          /\ symbol(Commands[i]) \in LabelNames
          /\ LastDeclaration(symbol(Commands[i])) > i
          /\ BinValue(OutputOf(i)) = LabelAddress(symbol(Commands[i]))

\* C4 as stated: when translate completes, the output has one line per
\* non-label command, in source order, each of exactly 16 binary digits:
\* "0" and 15 bits for an Address command, "111" and 13 bits for a Compute
\* command.
C4_SixteenBitLines ==
    pc = "Done" =>
        /\ target_file.written
        /\ Len(target_file.lines) = NonLabelCount
        /\ \A i \in 1..Len(Commands) :
              ~IsLabel(i) =>
                  LET line == target_file.lines[NonLabelsBefore(i) + 1]
                  IN  /\ Len(line) = 16
                      /\ IsBits(line)
                      /\ IsAddress(i) => line[1] = "0"
                      /\ IsCompute(i) => SubSeq(line, 1, 3) = <<"1","1","1">>

\* C5 as stated: an Address command with a literal target of 32768 or more
\* ends the run in failure and no instruction is emitted for it.
C5_LargeLiteralFails ==
    \A i \in 1..Consumed2 :
        /\ IsAddress(i)
        /\ isdigit(symbol(Commands[i]))
        /\ int(symbol(Commands[i])) >= 32768
        => /\ pc = "Failed"
           /\ Len(output_lines) = NonLabelsBefore(i)

\* C6: an Address command with a literal target v in 0..32767 is encoded as
\* "0" followed by 15 binary digits, and the 16 digits read as an unsigned
\* number are v (written back in decimal, they are the literal).
C6_LiteralEncoding ==
    \A i \in 1..Consumed2 :
        /\ IsAddress(i)
        /\ isdigit(symbol(Commands[i]))
        /\ int(symbol(Commands[i])) <= 32767
        => /\ Len(OutputOf(i)) = 16
           /\ IsBits(OutputOf(i))
           /\ OutputOf(i)[1] = "0"
           /\ BinValue(OutputOf(i)) = int(symbol(Commands[i]))
           /\ str(BinValue(OutputOf(i))) = symbol(Commands[i])

\* the largest literal, 32767, is written out as 0111111111111111
C6_Witness ==
    /\ pc = "Done"
    /\ source_file = << <<"@","3","2","7","6","7">> >>
    /\ target_file.lines = << <<"0">> \o [i \in 1..15 |-> "1"] >>

\* C7 as stated: no step changes or removes an existing binding of the
\* symbol table.
C7_BindingsNeverChange ==
    [][\A name \in DOMAIN symbol_table.symbolAddressMap :
          /\ name \in DOMAIN symbol_table'.symbolAddressMap
          /\ symbol_table'.symbolAddressMap[name]
                = symbol_table.symbolAddressMap[name]]_vars

\* C7 amended: no step removes a binding, and a bound name keeps its address
\* through every step of pass 2 and every step of pass 1 except the step of
\* a Label command that declares this very name, which rebinds the name
\* (a predefined symbol or an earlier label) to the current instruction
\* address.
C7_OnlyLabelsRebind ==
    [][\A name \in DOMAIN symbol_table.symbolAddressMap :
          /\ name \in DOMAIN symbol_table'.symbolAddressMap
          /\ symbol_table'.symbolAddressMap[name]
                # symbol_table.symbolAddressMap[name]
             => /\ pc = "Pass1"
                /\ command_type(parser'.current_command) = L_COMMAND
                /\ symbol(parser'.current_command) = name
                /\ symbol_table'.symbolAddressMap[name]
                      = symbol_table.programAddress]_vars

\* a finished run in which the label R1 has replaced the predefined R1 = 1
\* by 0 and pass 2 has bound a variable next to it
C7_Witness ==
    /\ pc = "Done"
    /\ symbol_table.symbolAddressMap[<<"R","1">>] = 0
    /\ \E i \in 1..Len(Commands) : IsVariableUse(i)
    /\ \E i \in 1..Len(Commands) :
          IsAddress(i) /\ symbol(Commands[i]) = <<"R","1">>

\* C8: when a label has the name of a predefined symbol, every Address
\* command that targets the name is encoded with the label's instruction
\* address, and the run is not rejected for it: a run fails only at a
\* Compute command.
C8_LabelShadowsPredefined ==
    /\ \A i \in 1..Consumed2 :
          /\ IsAddress(i)
          /\ symbol(Commands[i]) \in DOMAIN PredefinedSymbols
          /\ symbol(Commands[i]) \in LabelNames
          => /\ Len(OutputOf(i)) = 16
             /\ BinValue(OutputOf(i)) = LabelAddress(symbol(Commands[i]))
    /\ pc = "Failed" => command_type(parser.current_command) = C_COMMAND

\* the label R1 at instruction address 0, and @R1 encoded as 0, not as 1
C8_Witness ==
    /\ pc = "Done"
    /\ \E i \in 1..Len(Commands) :
          /\ IsAddress(i)
          /\ symbol(Commands[i]) = <<"R","1">>
          /\ <<"R","1">> \in LabelNames
          /\ LabelAddress(<<"R","1">>) # PredefinedSymbols[<<"R","1">>]
          /\ BinValue(OutputOf(i)) = 0

\* C9: the output file is written only by a run that encoded every command
\* of the source: it then holds one line per non-label command; a run that
\* failed has written nothing.
C9_AllOrNothing ==
    /\ target_file.written =>
          /\ pc = "Done"
          /\ error = "none"
          /\ Consumed2 = Len(Commands)
          /\ target_file.lines = output_lines
          /\ Len(target_file.lines) = NonLabelCount
    /\ ~target_file.written => target_file.lines = <<>>
    /\ pc = "Failed" => ~target_file.written

\* a run that failed after it had encoded instructions, with no output
C9_Witness ==
    /\ pc = "Failed"
    /\ Len(output_lines) >= 2
    /\ ~target_file.written

\* command i is a Compute command with a field that is looked up (an absent
\* or empty destination or jump is looked up as "NULL") and is not a key of
\* its table
HasUnknownMnemonic(i) ==
    /\ IsCompute(i)
    /\ \/ Parser_comp(Commands[i]) \notin DOMAIN compMnemonics
       \/ NullIfAbsent(Parser_dest(Commands[i])) \notin DOMAIN destMnemonics
       \/ NullIfAbsent(Parser_jump(Commands[i])) \notin DOMAIN jumpMnemonics

\* C10: a Compute command with a computation, destination or jump field
\* that is not a key of its table aborts the translation at that command:
\* no instruction is produced for it, nothing is written, and a run that
\* reaches Done has met no such command.
C10_UnknownMnemonicAborts ==
    /\ \A i \in 1..Consumed2 :
          HasUnknownMnemonic(i) =>
              /\ pc = "Failed"
              /\ error # "none"
              /\ i = Consumed2
              /\ Len(output_lines) = NonLabelsBefore(i)
              /\ ~target_file.written
    /\ pc = "Done" => \A i \in 1..Len(Commands) : ~HasUnknownMnemonic(i)

\* a run stopped by an unknown jump field after a valid Compute command
C10_Witness ==
    /\ pc = "Failed"
    /\ parser.current_command = <<"D",";","Q">>
    /\ Len(output_lines) >= 1
    /\ \E i \in 1..(Consumed2 - 1) : IsCompute(i)

\* the first character of a raw line that is not whitespace, 0 if none
FirstInk(raw) ==
    LET ink == {k \in 1..Len(raw) : raw[k] \notin Whitespace}
    IN  IF ink = {} THEN 0 ELSE CHOOSE k \in ink : \A m \in ink : k <= m

\* a raw line that is blank or holds a comment only
IsBlankOrCommentOnly(raw) ==
    \/ FirstInk(raw) = 0
    \/ /\ FirstInk(raw) < Len(raw)
       /\ raw[FirstInk(raw)] = "/"
       /\ raw[FirstInk(raw) + 1] = "/"

\* the file with its blank and comment-only lines removed
WithoutBlankLines(file) ==
    SelectSeq(file, LAMBDA raw : ~IsBlankOrCommentOnly(raw))

\* C11: a run on a source ends as the translation of the same source
\* without its blank and comment-only lines ends: the same symbol table
\* (label addresses, variable addresses, both cursors), the same output
\* lines and the same outcome.
C11_BlankLinesDoNotMatter ==
    pc \in {"Done", "Failed"} =>
        LET r == translate(WithoutBlankLines(source_file))
        IN  /\ symbol_table = r.symbol_table
            /\ output_lines = r.output_lines
            /\ error = r.error
            /\ pc = "Done" => target_file.lines = r.output_lines

\* a finished run over a label and a variable with a blank or comment-only
\* line between two commands
C11_Witness ==
    /\ pc = "Done"
    /\ \E k \in 2..(Len(source_file) - 1) :
          /\ IsBlankOrCommentOnly(source_file[k])
          /\ ~IsBlankOrCommentOnly(source_file[k - 1])
          /\ ~IsBlankOrCommentOnly(source_file[k + 1])
    /\ LabelNames # {}
    /\ symbol_table.dataAddress = 17
    /\ Len(target_file.lines) = 1

\* the bits the tests expect for a destination or jump field: "000" when
\* the field is absent, empty or NULL
ExpectedBits(table, mnemonic) ==
    IF mnemonic \in {None, <<>>, <<"N","U","L","L">>} THEN <<"0","0","0">>
    ELSE table[mnemonic]

\* C12: the tables hold 28 computation, 8 destination and 8 jump
\* mnemonics, and a Compute command over the tested mnemonics is encoded
\* with the bit patterns the tests expect, an absent, empty or NULL
\* destination or jump as "000".
C12_ReferenceTable ==
    /\ Cardinality(DOMAIN compMnemonics) = 28
    /\ Cardinality(DOMAIN destMnemonics) = 8
    /\ Cardinality(DOMAIN jumpMnemonics) = 8
    /\ \A i \in 1..Consumed2 :
          LET d == Parser_dest(Commands[i])
              c == Parser_comp(Commands[i])
              j == Parser_jump(Commands[i])
          IN  /\ IsCompute(i)
              /\ c \in DOMAIN ReferenceComp
              /\ d \in DOMAIN ReferenceDest \cup {None, <<"N","U","L","L">>}
              /\ j \in DOMAIN ReferenceJump \cup {None, <<"N","U","L","L">>}
              => /\ ~(pc = "Failed" /\ i = Consumed2)
                 /\ OutputOf(i) = <<"1","1","1">> \o ReferenceComp[c]
                                     \o ExpectedBits(ReferenceDest, d)
                                     \o ExpectedBits(ReferenceJump, j)

\* "=D|M;" with an empty destination and an empty jump, written out as
\* 111 1010101 000 000
C12_Witness ==
    /\ pc = "Done"
    /\ source_file = << <<"=","D","|","M",";">> >>
    /\ target_file.lines
          = << <<"1","1","1", "1","0","1","0","1","0","1", "0","0","0", "0","0","0">> >>

\* everything of line after the first occurrence of sep, for a line that
\* contains sep
AfterFirst(line, sep) == Tail_from(line, FindFrom(line, sep, 1) + Len(sep))

\* everything of line before the first occurrence of sep
BeforeFirst(line, sep) == SubSeq(line, 1, FindFrom(line, sep, 1) - 1)

\* the remainder of a Compute line: what follows the first "=", the whole
\* line when there is none
Remainder(line) ==
    IF Contains(line, <<"=">>) THEN AfterFirst(line, <<"=">>) ELSE line

\* the destination, computation and jump fields of a Compute line as the
\* grammar cuts them
FieldDest(line) ==
    IF Contains(line, <<"=">>) THEN strip(BeforeFirst(line, <<"=">>)) ELSE None

FieldComp(line) ==
    IF Contains(Remainder(line), <<";">>)
    THEN strip(BeforeFirst(Remainder(line), <<";">>))
    ELSE strip(Remainder(line))

FieldJump(line) ==
    IF Contains(Remainder(line), <<";">>)
    THEN strip(AfterFirst(Remainder(line), <<";">>))
    ELSE None

\* C13 as stated: for the Compute command the parser is at, Parser.dest,
\* Parser.comp and Parser.jump return the destination before the first
\* "=", and the computation and jump that the first ";" of the remainder
\* separates.
C13_FieldExtraction ==
    /\ parser.current_command # None
    /\ command_type(parser.current_command) = C_COMMAND
    => /\ Parser_dest(parser.current_command) = FieldDest(parser.current_command)
       /\ Parser_comp(parser.current_command) = FieldComp(parser.current_command)
       /\ Parser_jump(parser.current_command) = FieldJump(parser.current_command)

\* the same, on the lines with at most one "=" and at most one ";" after it
C13_WellFormedLines ==
    /\ parser.current_command # None
    /\ command_type(parser.current_command) = C_COMMAND
    /\ parser.current_command \in ComputeLines
    => /\ Parser_dest(parser.current_command) = FieldDest(parser.current_command)
       /\ Parser_comp(parser.current_command) = FieldComp(parser.current_command)
       /\ Parser_jump(parser.current_command) = FieldJump(parser.current_command)

\* the kind of a cleaned (non-empty) line as the grammar defines it
KindOf(line) ==
    IF Head(line) = "@" THEN "Address"
    ELSE IF Head(line) = "(" /\ line[Len(line)] = ")" THEN "Label"
    ELSE "Compute"

KindCode == [Address |-> A_COMMAND, Compute |-> C_COMMAND, Label |-> L_COMMAND]

\* the commands among the first n that the grammar does not make labels
ExecutableUpTo(n) == {i \in 1..n : KindOf(Commands[i]) # "Label"}

\* C14: the command the parser is at is the next command of the source, in
\* source order, and is classified by its first and last character alone:
\* "@" first, Address, with the rest of the line as target; "(" first and
\* ")" last, Label, with the text between them as name; Compute otherwise.
\* Both passes act on that kind: pass 1 counts the commands that are not
\* labels and pass 2 emits one line for each of them.
C14_Classification ==
    /\ parser.current_command # None =>
          LET cmd == parser.current_command
          IN  /\ Consumed(parser) \in 1..Len(Commands)
              /\ cmd = Commands[Consumed(parser)]
              /\ command_type(cmd) = KindCode[KindOf(cmd)]
              /\ KindOf(cmd) = "Address" => symbol(cmd) = Tail(cmd)
              /\ KindOf(cmd) = "Label" =>
                    symbol(cmd) = [k \in 1..(Len(cmd) - 2) |-> cmd[k + 1]]
              /\ KindOf(cmd) = "Compute" => symbol(cmd) = None
    /\ pc = "Pass1" =>
          symbol_table.programAddress
              = Cardinality(ExecutableUpTo(Consumed(parser)))
    /\ pc \in {"Pass2", "Done"} =>
          Len(output_lines) = Cardinality(ExecutableUpTo(Consumed2))

\* a finished run over a Label, an Address and a Compute command, in this
\* order, with two lines of output
C14_Witness ==
    /\ pc = "Done"
    /\ Len(Commands) = 3
    /\ [i \in 1..3 |-> KindOf(Commands[i])] = <<"Label", "Address", "Compute">>
    /\ Len(target_file.lines) = 2

\* a line that opens a label and does not close it
IsMalformedLabel(line) == Head(line) = "(" /\ line[Len(line)] # ")"

\* C15 as stated: a line that begins with "(" and does not end with ")"
\* stops the run where it is classified: the run has failed, pass 1 has
\* not counted the line as an instruction and pass 2 has not encoded it.
C15_MalformedLabelIsFatal ==
    /\ parser.current_command # None
    /\ IsMalformedLabel(parser.current_command)
    => /\ pc = "Failed"
       /\ symbol_table.programAddress
              = Cardinality(ExecutableUpTo(Consumed(parser) - 1))
       /\ Len(output_lines) <= Cardinality(ExecutableUpTo(Consumed(parser) - 1))

\* C16: a step of pass 2 changes the symbol table only when it takes an
\* Address command whose target is symbolic and not yet bound: it then adds
\* this one binding, at the variable cursor, and advances the variable
\* cursor by one.  Every other step of pass 2 (a Label or Compute command,
\* a numeric literal, a bound target) leaves the table and both cursors as
\* they are, and no step of pass 2 moves the instruction cursor.
C16_Pass2Frame ==
    [][pc = "Pass2" =>
        LET cmd == parser'.current_command
            map == symbol_table.symbolAddressMap
            allocates ==
                /\ parser' # parser
                /\ command_type(cmd) = A_COMMAND
                /\ ~isdigit(symbol(cmd))
                /\ symbol(cmd) \notin DOMAIN map
        IN  /\ symbol_table'.programAddress = symbol_table.programAddress
            /\ allocates =>
                  /\ DOMAIN symbol_table'.symbolAddressMap
                        = DOMAIN map \cup {symbol(cmd)}
                  /\ symbol_table'.symbolAddressMap[symbol(cmd)]
                        = symbol_table.dataAddress
                  /\ \A name \in DOMAIN map :
                        symbol_table'.symbolAddressMap[name] = map[name]
                  /\ symbol_table'.dataAddress = symbol_table.dataAddress + 1
            /\ ~allocates => symbol_table' = symbol_table]_vars

\* a finished run that bound one variable, used it a second time and
\* passed a label line in between
C16_Witness ==
    /\ pc = "Done"
    /\ symbol_table.dataAddress = 17
    /\ \E i \in 1..Len(Commands) : \E j \in (i + 2)..Len(Commands) :
          /\ IsVariableUse(i) /\ IsVariableUse(j)
          /\ symbol(Commands[i]) = symbol(Commands[j])
          /\ IsLabel(i + 1)

\* the names pass 2 has allocated: bound, not predefined, not a label
AllocatedVariables ==
    DOMAIN symbol_table.symbolAddressMap
        \ (DOMAIN PredefinedSymbols \cup LabelNames)

\* the cursors in a state: the instruction cursor is 0 at the start, in
\* pass 1 the number of non-label commands taken so far and from then on
\* the number of non-label commands of the source; the variable cursor is
\* 16 until pass 2 and then 16 plus the number of variables allocated
CursorsInState ==
    /\ pc = "Start" =>
          /\ symbol_table.programAddress = 0
          /\ symbol_table.dataAddress = 16
    /\ pc = "Pass1" =>
          /\ symbol_table.programAddress
                = Cardinality({i \in 1..Consumed(parser) : ~IsLabel(i)})
          /\ symbol_table.dataAddress = 16
    /\ AfterPass1 =>
          /\ symbol_table.programAddress = NonLabelCount
          /\ symbol_table.dataAddress = 16 + Cardinality(AllocatedVariables)

\* the cursors in a step: before pass 2 the variable cursor stays and the
\* instruction cursor moves by one exactly when pass 1 takes a non-label
\* command; from pass 2 on the instruction cursor stays and the variable
\* cursor moves by at most one
CursorsInStep ==
    /\ pc \in {"Start", "Pass1"} =>
          /\ symbol_table'.dataAddress = symbol_table.dataAddress
          /\ symbol_table'.programAddress
                = symbol_table.programAddress
                  + (IF /\ pc' = "Pass1"
                        /\ parser' # parser
                        /\ parser'.current_command # None
                        /\ command_type(parser'.current_command) # L_COMMAND
                     THEN 1 ELSE 0)
    /\ AfterPass1 =>
          /\ symbol_table'.programAddress = symbol_table.programAddress
          /\ symbol_table'.dataAddress - symbol_table.dataAddress \in {0, 1}

\* C17: the two cursors are independent and monotone: the instruction
\* cursor starts at 0, advances by exactly one per non-label command in
\* pass 1 and never changes in pass 2; the variable cursor starts at 16,
\* never changes in pass 1 and is in pass 2 always 16 plus the number of
\* variables allocated so far.
C17_Cursors == []CursorsInState /\ [][CursorsInStep]_vars

\* a finished run over two instructions, a label and one variable
C17_Witness ==
    /\ pc = "Done"
    /\ symbol_table.programAddress = 2
    /\ symbol_table.dataAddress = 17
    /\ LabelNames # {}

\* the steps of a run: pc moves along Start, Pass1, Pass2 and then Done or
\* Failed; a pass starts with a parser of its own that has handed out
\* nothing and waits at the first command; a step inside a pass takes
\* exactly the next command of the source; a pass ends, other than by
\* failure, only when every command has been taken
RunInStep ==
    /\ pc' # pc =>
          <<pc, pc'>> \in {<<"Start", "Pass1">>, <<"Pass1", "Pass2">>,
                           <<"Pass2", "Done">>, <<"Pass2", "Failed">>}
    /\ pc' # pc /\ pc' \in {"Pass1", "Pass2"} =>
          /\ Consumed(parser') = 0
          /\ parser'.current_command = None
          /\ parser'.next_line
                = (IF Commands = <<>> THEN None ELSE Commands[1])
    /\ pc \in {"Pass1", "Pass2"} /\ parser' # parser /\ pc' # "Pass2" =>
          /\ Consumed(parser') = Consumed(parser) + 1
          /\ parser'.current_command = Commands[Consumed(parser')]
    /\ pc' # pc /\ pc' \in {"Pass2", "Done"} =>
          Consumed(parser) = Len(Commands)

LastInk(raw) ==
    LET ink == {k \in 1..Len(raw) : raw[k] \notin Whitespace}
    IN  IF ink = {} THEN 0 ELSE CHOOSE k \in ink : \A m \in ink : k >= m

\* a raw line without everything from its first "//" onward
WithoutComment(raw) ==
    LET marks == {k \in 1..(Len(raw) - 1) : raw[k] = "/" /\ raw[k + 1] = "/"}
    IN  IF marks = {} THEN raw
        ELSE SubSeq(raw, 1, (CHOOSE k \in marks : \A m \in marks : k <= m) - 1)

\* a raw line cleaned as specified: comment removed, then trimmed
CleanedLine(raw) ==
    LET text == WithoutComment(raw)
    IN  IF FirstInk(text) = 0 THEN <<>>
        ELSE SubSeq(text, FirstInk(text), LastInk(text))

\* the non-empty cleaned lines of a file, in order
CleanedLines(file) ==
    SelectSeq([k \in 1..Len(file) |-> CleanedLine(file[k])], LAMBDA l : l # <<>>)

\* how many cleaned lines the parser has handed out: those of the raw lines
\* it has read, less the one it holds back as next_line
HandedOut ==
    Len(CleanedLines(SubSeq(source_file, 1, parser.pos)))
        - (IF parser.next_line = None THEN 0 ELSE 1)

\* C19: a parser hands out exactly the non-empty cleaned lines of the
\* source, in order: after k calls of advance the current command is the
\* k-th of them and the line held for the next call is the (k+1)-th;
\* has_more_commands is true exactly when one of them has not been handed
\* out yet, so it is false at once for a source without commands.
C19_ParserYieldsCleanedLines ==
    pc # "Start" =>
        LET all == CleanedLines(source_file)
        IN  /\ HandedOut \in 0..Len(all)
            /\ has_more_commands(parser) <=> HandedOut < Len(all)
            /\ parser.next_line
                  = (IF HandedOut < Len(all) THEN all[HandedOut + 1] ELSE None)
            /\ parser.current_command
                  = (IF HandedOut = 0 THEN None ELSE all[HandedOut])

\* a parser at the end of a source with a blank line and a commented
\* command: the command came out without its comment and nothing is left
C19_Witness ==
    /\ pc = "Done"
    /\ \E k \in 1..Len(source_file) : source_file[k] = <<>>
    /\ source_file[Len(source_file)] = <<"@","j"," ","/","/","v">>
    /\ parser.current_command = <<"@","j">>
    /\ ~has_more_commands(parser)

\* C20: when a run completes, the number of emitted instructions is the
\* value of the instruction cursor at the end of pass 1, and every label is
\* bound to an address from 0 to that number, to that number exactly when
\* no Address or Compute command follows its declaration.
C20_EmittedEqualsCursor ==
    pc = "Done" =>
        LET emitted == Len(target_file.lines)
        IN  /\ emitted = symbol_table.programAddress
            /\ \A name \in LabelNames :
                  /\ symbol_table.symbolAddressMap[name] \in 0..emitted
                  /\ symbol_table.symbolAddressMap[name] = emitted
                        <=> \A j \in LastDeclaration(name)..Len(Commands) :
                               IsLabel(j)

\* a finished run with one label below the number of emitted instructions
\* and one label, after the last instruction, at that number
C20_Witness ==
    /\ pc = "Done"
    /\ Len(target_file.lines) >= 1
    /\ \E a \in LabelNames : \E b \in LabelNames :
          /\ symbol_table.symbolAddressMap[a] < Len(target_file.lines)
          /\ symbol_table.symbolAddressMap[b] = Len(target_file.lines)

====
